---- MODULE Spec2Model ----
(***************************************************************************)
(* The affective-audio-inference pipeline of runner.py: the fixed 45 s      *)
(* window of Predictor.extract_features, the two AudioNet forward passes    *)
(* of Predictor.predict, the attention head, and the emotion / colour       *)
(* lookup (normalize_value, find_emotion, get_colormap).                    *)
(*                                                                         *)
(* Numbers.  Valence and arousal values are fixed-point integers in         *)
(* hundredths (0.89 is 89).  find_emotion compares math.sqrt(d) values;     *)
(* sqrt is strictly increasing on the non-negative reals, so the model      *)
(* compares the squared distances d themselves (in units of 1/10000) and    *)
(* floating-point rounding is outside the model.                            *)
(*                                                                         *)
(* Waveforms.  A 45 s waveform has 1,984,500 samples, so a waveform is      *)
(* kept as a sequence of runs: [kind |-> "pcm", start, count] stands for    *)
(* the decoded samples start .. start+count-1 of the file, in order, and    *)
(* [kind |-> "zero", start |-> 0, count] for count zero samples.            *)
(***************************************************************************)
EXTENDS Integers, Sequences, FiniteSets, TLC

VARIABLES
    emotions,            \* module global `emotions` (insertion-ordered dict)
    clustered_emotions,  \* module global `clustered_emotions`
    valence_model,       \* Predictor.valence_model
    arousal_model,       \* Predictor.arousal_model
    call,                \* the entry point the page invoked, with its arguments
    pc,                  \* position inside Predictor.predict
    audio_path,          \* argument of the running Predictor.predict call
    features,            \* local `features` of Predictor.predict
    valence_prediction,  \* local `valence_prediction` of Predictor.predict
    trace,               \* calls made so far by the running Predictor.predict
    first_result,        \* the first (audio, result) Predictor.predict returned
    ret                  \* what the last completed call returned

vars == <<emotions, clustered_emotions, valence_model, arousal_model, call, pc,
          audio_path, features, valence_prediction, trace, first_result, ret>>

None == "None"

\* no call has returned yet
Nothing == [op |-> "none"]

-----------------------------------------------------------------------------
(* Bounds of the model *)

\* query coordinates are the multiples of 0.05 in [-MaxGrid*0.05, MaxGrid*0.05]
MaxGrid == 22
\* decoded lengths are 0..MaxDelta and 45 s - MaxDelta .. 45 s + MaxDelta samples
MaxDelta == 2
\* width of the flattened vector given to the attention head (7104 / 3552 in the
\* trained networks)
MaxFeature == 3
\* hidden width of the attention scorer (64 in the code)
MaxHidden == 1

-----------------------------------------------------------------------------
(* EMOTION MAPPING: the literal tables *)

emotions_literal_Missing ==
    << <<"Sleepy", 1, -100>>, <<"Tired", -1, -100>>, <<"Afraid", -12, 79>>,
       <<"Angry", -40, 79>>, <<"Calm", 78, -68>>, <<"Relaxed", 71, -65>>,
       <<"Content", 81, -55>>, <<"Depressed", -81, -48>>,
       <<"Discontent", -68, -32>>, <<"Determined", 73, 26>>,
       <<"Happy", 89, 17>>, <<"Anxious", -72, -80>>, <<"Good", 90, -8>>,
       <<"Pensive", 3, -60>>, <<"Impressed", 39, -6>>,
       <<"Frustrated", -60, 40>>, <<"Disappointed", -80, -3>>,
       <<"Bored", -35, -78>>, <<"Annoyed", -44, 76>>, <<"Enraged", -18, 83>>,
       <<"Excited", 70, 71>>, <<"Melancholy", -5, -65>>,
       <<"Satisfied", 77, -63>>, <<"Distressed", -71, 55>>,
       <<"Uncomfortable", -68, -37>>, <<"Worried", -7, -32>>,
       <<"Amused", 55, 19>>, <<"Apathetic", -20, -12>>,
       <<"Peaceful", 55, -80>>, <<"Contemplative", 58, -60>>,
       <<"Embarrassed", -31, -60>>, <<"Sad", -81, -40>>,
       <<"Hopeful", 61, -30>> >>

\* the key: {"valence": v, "arousal": a} items of the dict display, in order
emotions_literal ==
    << <<"Sleepy", 1, -100>>, <<"Tired", -1, -100>>, <<"Afraid", -12, 79>>,
       <<"Angry", -40, 79>>, <<"Calm", 78, -68>>, <<"Relaxed", 71, -65>>,
       <<"Content", 81, -55>>, <<"Depressed", -81, -48>>,
       <<"Discontent", -68, -32>>, <<"Determined", 73, 26>>,
       <<"Happy", 89, 17>>, <<"Anxious", -72, -80>>, <<"Good", 90, -8>>,
       <<"Pensive", 3, -60>>, <<"Impressed", 39, -6>>,
       <<"Frustrated", -60, 40>>, <<"Disappointed", -80, -3>>,
       <<"Bored", -35, -78>>, <<"Annoyed", -44, 76>>, <<"Enraged", -18, 83>>,
       <<"Excited", 70, 71>>, <<"Melancholy", -5, -65>>,
       <<"Satisfied", 77, -63>>, <<"Distressed", -71, 55>>,
       <<"Uncomfortable", -68, -37>>, <<"Worried", -7, -32>>,
       <<"Amused", 55, 19>>, <<"Apathetic", -20, -12>>,
       <<"Peaceful", 55, -80>>, <<"Contemplative", 58, -60>>,
       <<"Embarrassed", -31, -60>>, <<"Sad", -81, -40>>,
       <<"Hopeful", 61, -30>>, <<"Pleased", 89, -10>> >>

\* a dict display: a repeated key keeps its first position and takes the last
\* value, so the dict has one item per distinct key
RECURSIVE dict_display(_, _)
dict_display(items, built) ==
    IF items = <<>> THEN built
    ELSE LET item == [name |-> Head(items)[1], valence |-> Head(items)[2],
                      arousal |-> Head(items)[3]]
             same == {i \in 1..Len(built) : built[i].name = item.name}
         IN dict_display(Tail(items),
                IF same = {} THEN Append(built, item)
                ELSE [i \in 1..Len(built) |->
                         IF i \in same THEN item ELSE built[i]])

clustered_emotions_literal_Missing ==
    << [color |-> "blue",
        names |-> <<"Determined", "Happy", "Good", "Impressed", "Excited",
                    "Amused", "Hopeful">>],
       [color |-> "red",
        names |-> <<"Depressed", "Discontent", "Anxious", "Disappointed",
                    "Bored", "Uncomfortable", "Worried", "Apathetic",
                    "Embarrassed", "Sad">>],
       [color |-> "green",
        names |-> <<"Afraid", "Angry", "Frustrated", "Annoyed", "Enraged",
                    "Distressed">>],
       [color |-> "purple",
        names |-> <<"Sleepy", "Tired", "Calm", "Relaxed", "Content",
                    "Pensive", "Melancholy", "Satisfied", "Peaceful",
                    "Contemplative">>] >>

clustered_emotions_literal ==
    << [color |-> "blue",
        names |-> <<"Determined", "Happy", "Good", "Impressed", "Excited",
                    "Amused", "Hopeful", "Pleased">>],
       [color |-> "red",
        names |-> <<"Depressed", "Discontent", "Anxious", "Disappointed",
                    "Bored", "Uncomfortable", "Worried", "Apathetic",
                    "Embarrassed", "Sad">>],
       [color |-> "green",
        names |-> <<"Afraid", "Angry", "Frustrated", "Annoyed", "Enraged",
                    "Distressed">>],
       [color |-> "purple",
        names |-> <<"Sleepy", "Tired", "Calm", "Relaxed", "Content",
                    "Pensive", "Melancholy", "Satisfied", "Peaceful",
                    "Contemplative">>] >>

-----------------------------------------------------------------------------
(* EMOTION MAPPING: normalize_value, find_emotion, get_colormap *)

\* min_distance = math.inf, kept as a value no squared distance takes
math_inf == -1

normalize_value_Plus(value) == (value - 100) \div 4 + 100

\* (value - 1) / 4 - 1 in hundredths; the callers pass values for which the
\* division is exact
normalize_value(value) == (value - 100) \div 4 - 100

distance_ValenceOnly(valence, arousal, scores) ==
    (valence - scores.valence) * (valence - scores.valence)

\* the square of line 199's distance
distance(valence, arousal, scores) ==
    (valence - scores.valence) * (valence - scores.valence)
    + (arousal - scores.arousal) * (arousal - scores.arousal)

closer_OrEqual(d, min_distance) == min_distance = math_inf \/ d <= min_distance

\* `distance < min_distance`
closer(d, min_distance) == min_distance = math_inf \/ d < min_distance

\* the for loop of find_emotion from the i-th item of emotions.items()
RECURSIVE find_emotion_loop(_, _, _, _, _)
find_emotion_loop(i, valence, arousal, closest_emotion, min_distance) ==
    IF i > Len(emotions) THEN closest_emotion
    ELSE LET d == distance(valence, arousal, emotions[i])
         IN IF closer(d, min_distance)
            THEN find_emotion_loop(i + 1, valence, arousal, emotions[i].name, d)
            ELSE find_emotion_loop(i + 1, valence, arousal, closest_emotion,
                                   min_distance)

find_emotion(valence, arousal) ==
    find_emotion_loop(1, valence, arousal, None, math_inf)

\* `emotion in emotion_list`
in_list(emotion, emotion_list) ==
    \E k \in 1..Len(emotion_list) : emotion_list[k] = emotion

\* the for loop of get_colormap from the i-th item of clustered_emotions.items()
RECURSIVE color_loop(_, _)
color_loop(i, emotion) ==
    IF i > Len(clustered_emotions) THEN None
    ELSE IF in_list(emotion, clustered_emotions[i].names)
         THEN clustered_emotions[i].color
         ELSE color_loop(i + 1, emotion)

\* get_colormap, with its locals at the return: .color is the returned value
get_colormap(valence, arousal) ==
    LET v == normalize_value(valence)
        a == normalize_value(arousal)
        emotion == find_emotion(v, a)
    IN [valence |-> v, arousal |-> a, emotion |-> emotion,
        color |-> color_loop(1, emotion)]

-----------------------------------------------------------------------------
(* LOAD VA GENERATION: the fixed window of Predictor.extract_features *)

sample_rate == 44100

window_seconds == 45

\* sr * 45
window_length == sample_rate * window_seconds

\* hop_length = int(sr * 0.01)
hop_length == sample_rate \div 100

\* len(wave)
RECURSIVE wave_len(_)
wave_len(wave) ==
    IF wave = <<>> THEN 0 ELSE Head(wave).count + wave_len(Tail(wave))

zeros(n) == IF n = 0 THEN <<>> ELSE <<[kind |-> "zero", start |-> 0, count |-> n]>>

\* librosa.load(audio_path, sr=sample_rate): the decoded samples of the file;
\* an audio file is named by the number of samples it decodes to
librosa_load(path) ==
    IF path = 0 THEN <<>> ELSE <<[kind |-> "pcm", start |-> 0, count |-> path]>>

\* np.pad(wave, (before, after), 'constant')
np_pad(wave, before, after) == zeros(before) \o wave \o zeros(after)

\* wave[:stop]
RECURSIVE slice_to(_, _)
slice_to(wave, stop) ==
    IF wave = <<>> \/ stop <= 0 THEN <<>>
    ELSE IF Head(wave).count <= stop
         THEN <<Head(wave)>> \o slice_to(Tail(wave), stop - Head(wave).count)
         ELSE <<[Head(wave) EXCEPT !.count = stop]>>

fixed_window_NoTruncate(wave) ==
    IF wave_len(wave) < window_length
    THEN np_pad(wave, 0, window_length - wave_len(wave))
    ELSE wave

\* lines 134-136: pad at the end when shorter, then keep the first sr * 45
fixed_window(wave) ==
    LET padded == IF wave_len(wave) < window_length
                  THEN np_pad(wave, 0, window_length - wave_len(wave))
                  ELSE wave
    IN slice_to(padded, window_length)

\* one librosa.feature call: what it was given and the shape of what it returns
\* (centred frames: 1 + len(y) // hop_length columns)
descriptor(fn, y, bands) ==
    [fn |-> fn, y |-> y, bands |-> bands, frames |-> 1 + wave_len(y) \div hop_length]

\* Predictor.extract_features: np.concatenate((mfcc, chroma, contrast), axis=0)
extract_features(path) ==
    LET wave == fixed_window(librosa_load(path))
    IN <<descriptor("mfcc", wave, 20), descriptor("chroma_stft", wave, 12),
         descriptor("spectral_contrast", wave, 7)>>

-----------------------------------------------------------------------------
(* LOAD VA GENERATION: AudioNet and Predictor *)

load_model_NoEval(model_path, params) ==
    [params |-> params, state_dict |-> model_path, training |-> TRUE,
     running_stats |-> "loaded"]

\* Predictor.load_model: AudioNet(params) is built in training mode (the
\* nn.Module default), load_state_dict fills it, model.eval() leaves it in
\* inference mode
load_model(model_path, params) ==
    [params |-> params, state_dict |-> model_path, training |-> FALSE,
     running_stats |-> "loaded"]

\* self.drop(x): nn.Dropout(p=0.5) draws a fresh mask in training mode and is
\* the identity in inference mode
dropout_masks(model) ==
    IF model.training THEN {"mask_1", "mask_2"} ELSE {"identity"}

\* AudioNet.forward under a dropout mask: the output is a function of the
\* weights, the normalisation statistics, the input and the mask; in training
\* mode BatchNorm1d normalises by the batch and updates its running statistics
forward(model, x, mask) ==
    [out |-> [state_dict |-> model.state_dict,
              stats |-> IF model.training THEN "batch" ELSE model.running_stats,
              x |-> x, dropout |-> mask],
     model |-> IF model.training
               THEN [model EXCEPT !.running_stats = "updated"]
               ELSE model]

valence_params ==
    [in_ch |-> 39, num_filters1 |-> 32, num_filters2 |-> 64, num_hidden |-> 64,
     out_size |-> 1]

arousal_params ==
    [in_ch |-> 39, num_filters1 |-> 32, num_filters2 |-> 32, num_hidden |-> 128,
     out_size |-> 1]

-----------------------------------------------------------------------------
(* LOAD VA GENERATION: the Attention head *)
(* A tensor of shape (batch, width) is a sequence of rows; AudioNet.forward *)
(* flattens to one row per sample and Predictor feeds one sample.           *)
(* Weights are integers; a softmax weight is the exact ratio num/den.  The  *)
(* exponential is taken to base 2 from the row minimum, which keeps the     *)
(* ratios integral: like e^s it is positive and increasing, and the claims  *)
(* read only the shape of the weights and whether a weight is 1.            *)

RECURSIVE dot(_, _)
dot(u, w) == IF u = <<>> THEN 0 ELSE Head(u) * Head(w) + dot(Tail(u), Tail(w))

RECURSIVE total(_)
total(u) == IF u = <<>> THEN 0 ELSE Head(u) + total(Tail(u))

RECURSIVE pow2(_)
pow2(n) == IF n <= 0 THEN 1 ELSE 2 * pow2(n - 1)

row_min(u) == CHOOSE m \in {u[j] : j \in 1..Len(u)} : \A j \in 1..Len(u) : m <= u[j]

\* nn.Linear(in, out): weight is out rows of in columns, bias has out entries
linear(x, layer) ==
    [r \in 1..Len(x) |->
        [o \in 1..Len(layer.weight) |-> dot(x[r], layer.weight[o]) + layer.bias[o]]]

\* nn.ReLU
relu(x) ==
    [r \in 1..Len(x) |-> [j \in 1..Len(x[r]) |-> IF x[r][j] > 0 THEN x[r][j] ELSE 0]]

\* self.attention = Sequential(Linear(feature_dim, 64), ReLU, Linear(64, 1))
scorer(net, x) == linear(relu(linear(x, net.fc_in)), net.fc_out)

\* F.softmax(scores, dim=1): each row is normalised over its own entries
softmax_dim1(scores) ==
    [r \in 1..Len(scores) |->
        LET e == [j \in 1..Len(scores[r]) |-> pow2(scores[r][j] - row_min(scores[r]))]
        IN [j \in 1..Len(scores[r]) |-> [num |-> e[j], den |-> total(e)]]]

\* x * alpha with broadcasting: a row of alpha with one entry scales the whole
\* row of x, a row as wide as x scales entry by entry
broadcast_mul(x, alpha) ==
    [r \in 1..Len(x) |->
        [j \in 1..Len(x[r]) |->
            LET w == IF Len(alpha[r]) = 1 THEN alpha[r][1] ELSE alpha[r][j]
            IN [num |-> x[r][j] * w.num, den |-> w.den]]]

\* Attention.forward with its locals: .attended_features is what it returns
\* (the view(-1, feature_dim) keeps the rows as they are)
attention_forward(net, x) ==
    LET scores == scorer(net, x)
        alpha == softmax_dim1(scores)
    IN [scores |-> scores, alpha |-> alpha,
        attended_features |-> broadcast_mul(x, alpha)]

-----------------------------------------------------------------------------
(* The calls the page makes *)

Coords == {5 * k : k \in -MaxGrid..MaxGrid}

\* normalised (valence, arousal) pairs: a grid, and every reference point
QueryPoints ==
    (Coords \X Coords)
    \cup {<<emotions_literal[i][2], emotions_literal[i][3]>> :
             i \in 1..Len(emotions_literal)}

\* audio files, by decoded length: empty and tiny files, a 10 s file, and files
\* around 45 s
AudioPaths ==
    (0..MaxDelta) \cup {10 * sample_rate}
    \cup {window_length + d : d \in (0 - MaxDelta)..MaxDelta}

\* rows of the first layer's weight: k entries of 1, then entries of -1
WeightRows(d) == {[j \in 1..d |-> IF j <= k THEN 1 ELSE -1] : k \in 0..d}

\* Attention(d) for d up to MaxFeature, over a few integer weights
AttentionNets ==
    UNION {
        {[fc_in |-> [weight |-> w1, bias |-> [o \in 1..MaxHidden |-> 0]],
          fc_out |-> [weight |-> <<w2>>, bias |-> <<b2>>]] :
            w1 \in [1..MaxHidden -> WeightRows(d)],
            w2 \in [1..MaxHidden -> {-1, 1}],
            b2 \in {0, 1}} :
        d \in 1..MaxFeature}

feature_dim(net) == Len(net.fc_in.weight[1])

Calls ==
    {[fn |-> "find_emotion", valence |-> q[1], arousal |-> q[2]] : q \in QueryPoints}
    \cup {[fn |-> "get_colormap", valence |-> 4 * q[1] + 500,
           arousal |-> 4 * q[2] + 500] : q \in QueryPoints}
    \cup UNION {{[fn |-> "Attention.forward", net |-> net, x |-> <<row>>] :
                    row \in [1..feature_dim(net) -> {-1, 2}]} : net \in AttentionNets}
    \cup {[fn |-> "Predictor.predict"]}

\* the state once the module is loaded and the Predictor constructed, for a
\* given clustered_emotions table
Loaded(clusters) ==
    /\ emotions = dict_display(emotions_literal, <<>>)
    /\ clustered_emotions = clusters
    /\ valence_model = load_model("model_path_valence", valence_params)
    /\ arousal_model = load_model("model_path_arousal", arousal_params)
    /\ call \in Calls
    /\ pc = "idle"
    /\ audio_path = None
    /\ features = None
    /\ valence_prediction = None
    /\ trace = <<>>
    /\ first_result = Nothing
    /\ ret = Nothing

Init == Loaded(clustered_emotions_literal)

FindEmotion ==
    /\ call.fn = "find_emotion"
    /\ ret' = [op |-> "find_emotion", valence |-> call.valence,
               arousal |-> call.arousal,
               emotion |-> find_emotion(call.valence, call.arousal)]
    /\ UNCHANGED <<emotions, clustered_emotions, valence_model, arousal_model,
                   call, pc, audio_path, features, valence_prediction, trace,
                   first_result>>

GetColormap ==
    /\ call.fn = "get_colormap"
    /\ ret' = [op |-> "get_colormap", valence |-> call.valence,
               arousal |-> call.arousal,
               locals |-> get_colormap(call.valence, call.arousal)]
    /\ UNCHANGED <<emotions, clustered_emotions, valence_model, arousal_model,
                   call, pc, audio_path, features, valence_prediction, trace,
                   first_result>>

AttentionForward ==
    /\ call.fn = "Attention.forward"
    /\ ret' = [op |-> "Attention.forward", x |-> call.x,
               feature_dim |-> feature_dim(call.net),
               locals |-> attention_forward(call.net, call.x)]
    /\ UNCHANGED <<emotions, clustered_emotions, valence_model, arousal_model,
                   call, pc, audio_path, features, valence_prediction, trace,
                   first_result>>

\* Predictor.predict, line 150: features = self.extract_features(audio_path)
PredictExtract(path) ==
    /\ call.fn = "Predictor.predict"
    /\ pc = "idle"
    /\ audio_path' = path
    /\ features' = extract_features(path)
    /\ trace' = <<[fn |-> "extract_features", out |-> features']>>
    /\ valence_prediction' = None
    /\ ret' = Nothing
    /\ pc' = "valence"
    /\ UNCHANGED <<emotions, clustered_emotions, valence_model, arousal_model,
                   call, first_result>>

\* line 152: valence_prediction = self.valence_model(features)
PredictValence ==
    /\ pc = "valence"
    /\ \E mask \in dropout_masks(valence_model) :
          LET f == forward(valence_model, features, mask)
          IN /\ valence_prediction' = f.out
             /\ valence_model' = f.model
    /\ trace' = Append(trace, [fn |-> "valence_model", x |-> features])
    /\ pc' = "arousal"
    /\ UNCHANGED <<emotions, clustered_emotions, arousal_model, call,
                   audio_path, features, first_result, ret>>

PredictArousal_Reextract ==
    /\ pc = "arousal"
    /\ \E mask \in dropout_masks(arousal_model) :
          LET f == forward(arousal_model, extract_features(audio_path), mask)
              result == <<valence_prediction, f.out>>
          IN /\ arousal_model' = f.model
             /\ ret' = [op |-> "Predictor.predict", audio_path |-> audio_path,
                        result |-> result]
             /\ first_result' =
                  IF first_result = Nothing
                  THEN [op |-> "Predictor.predict", audio_path |-> audio_path,
                        result |-> result, repeated |-> FALSE]
                  ELSE IF first_result.audio_path = audio_path
                       THEN [first_result EXCEPT !.repeated = TRUE]
                       ELSE first_result
    /\ trace' = trace \o <<[fn |-> "extract_features",
                            out |-> extract_features(audio_path)],
                           [fn |-> "arousal_model",
                            x |-> extract_features(audio_path)]>>
    /\ features' = None
    /\ valence_prediction' = None
    /\ audio_path' = None
    /\ pc' = "idle"
    /\ UNCHANGED <<emotions, clustered_emotions, valence_model, call>>

\* lines 153-154: arousal_prediction = self.arousal_model(features), then
\* return valence_prediction.item(), arousal_prediction.item(); the locals go
\* away with the frame
PredictArousal ==
    /\ pc = "arousal"
    /\ \E mask \in dropout_masks(arousal_model) :
          LET f == forward(arousal_model, features, mask)
              result == <<valence_prediction, f.out>>
          IN /\ arousal_model' = f.model
             /\ ret' = [op |-> "Predictor.predict", audio_path |-> audio_path,
                        result |-> result]
             /\ first_result' =
                  IF first_result = Nothing
                  THEN [op |-> "Predictor.predict", audio_path |-> audio_path,
                        result |-> result, repeated |-> FALSE]
                  ELSE IF first_result.audio_path = audio_path
                       THEN [first_result EXCEPT !.repeated = TRUE]
                       ELSE first_result
    /\ trace' = Append(trace, [fn |-> "arousal_model", x |-> features])
    /\ features' = None
    /\ valence_prediction' = None
    /\ audio_path' = None
    /\ pc' = "idle"
    /\ UNCHANGED <<emotions, clustered_emotions, valence_model, call>>

Next ==
    \/ FindEmotion
    \/ GetColormap
    \/ AttentionForward
    \/ \E path \in AudioPaths : PredictExtract(path)
    \/ PredictValence
    \/ PredictArousal

Spec == Init /\ [][Next]_vars

\* clustered_emotions with one name left out of the list it is in
drop_name(clusters, name) ==
    [i \in 1..Len(clusters) |->
        [clusters[i] EXCEPT !.names = SelectSeq(clusters[i].names,
                                                LAMBDA n : n # name)]]

\* the table as written, and the table with one catalog name missing
ClusterTables ==
    {clustered_emotions_literal}
    \cup {drop_name(clustered_emotions_literal, emotions_literal[i][1]) :
             i \in 1..Len(emotions_literal)}

InitConfig == \E clusters \in ClusterTables : Loaded(clusters)

\* the same program started on any of ClusterTables
SpecConfig == InitConfig /\ [][Next]_vars

-----------------------------------------------------------------------------
(* Properties *)

Colors == {"blue", "red", "green", "purple"}

index_of(name) == CHOOSE i \in 1..Len(emotions) : emotions[i].name = name

sq_dist(valence, arousal, i) ==
    (valence - emotions[i].valence) * (valence - emotions[i].valence)
    + (arousal - emotions[i].arousal) * (arousal - emotions[i].arousal)

names_of(i) == {clustered_emotions[i].names[k] :
                   k \in 1..Len(clustered_emotions[i].names)}

\* C1: whatever the decoded length, each of the three descriptors of
\* Predictor.extract_features is given exactly 1,984,500 samples: the first
\* min(len, 1,984,500) samples of the file in order, then zeros, and no sample
\* of the file at or beyond index 1,984,500.
C1_FixedWindow ==
    pc \in {"valence", "arousal"} =>
        LET kept == IF audio_path < 1984500 THEN audio_path ELSE 1984500
            want == (IF kept > 0
                     THEN <<[kind |-> "pcm", start |-> 0, count |-> kept]>>
                     ELSE <<>>)
                    \o (IF kept < 1984500
                        THEN <<[kind |-> "zero", start |-> 0,
                                count |-> 1984500 - kept]>>
                        ELSE <<>>)
        IN \A k \in 1..Len(features) :
              /\ wave_len(features[k].y) = 1984500
              /\ features[k].y = want

C1_Witness ==
    /\ pc = "valence"
    /\ audio_path > 1984500
    /\ Len(features) = 3
    /\ features[1].y = <<[kind |-> "pcm", start |-> 0, count |-> 1984500]>>

\* C2: find_emotion returns the name of a catalog entry at minimum Euclidean
\* distance from the query; a query equal to an entry's reference point gets
\* that entry, at distance 0.
C2_Nearest ==
    ret.op = "find_emotion" =>
        /\ \E i \in 1..Len(emotions) :
              /\ emotions[i].name = ret.emotion
              /\ \A j \in 1..Len(emotions) :
                    sq_dist(ret.valence, ret.arousal, i)
                        <= sq_dist(ret.valence, ret.arousal, j)
        /\ \A k \in 1..Len(emotions) :
              (emotions[k].valence = ret.valence /\ emotions[k].arousal = ret.arousal)
                  => /\ ret.emotion = emotions[k].name
                     /\ sq_dist(ret.valence, ret.arousal, index_of(ret.emotion)) = 0

C2_Witness ==
    /\ ret.op = "find_emotion"
    /\ ret.valence = 89
    /\ ret.arousal = 17
    /\ ret.emotion = "Happy"

\* C3: among entries at the same minimum distance find_emotion returns the one
\* that comes first in the catalog: every earlier entry is strictly farther
\* than the returned one, no later entry is nearer.
C3_FirstOfTies ==
    ret.op = "find_emotion" =>
        LET i == index_of(ret.emotion)
        IN /\ \A j \in 1..(i - 1) :
                 sq_dist(ret.valence, ret.arousal, j)
                     > sq_dist(ret.valence, ret.arousal, i)
           /\ \A j \in (i + 1)..Len(emotions) :
                 sq_dist(ret.valence, ret.arousal, j)
                     >= sq_dist(ret.valence, ret.arousal, i)

C3_Witness ==
    /\ ret.op = "find_emotion"
    /\ ret.valence = 0
    /\ ret.arousal = -100
    /\ ret.emotion = "Sleepy"
    /\ sq_dist(0, -100, index_of("Sleepy")) = sq_dist(0, -100, index_of("Tired"))

\* C4: the four clusters are pairwise disjoint, their union is the key set of
\* the catalog, and get_colormap returns one of the four colours, never None.
C4_ClustersPartition ==
    /\ \A i, j \in 1..Len(clustered_emotions) :
          i # j => names_of(i) \cap names_of(j) = {}
    /\ UNION {names_of(i) : i \in 1..Len(clustered_emotions)}
          = {emotions[i].name : i \in 1..Len(emotions)}
    /\ {clustered_emotions[i].color : i \in 1..Len(clustered_emotions)} = Colors
    /\ ret.op = "get_colormap" => ret.locals.color \in Colors

C4_Witness ==
    /\ ret.op = "get_colormap"
    /\ ret.locals.emotion = "Pleased"
    /\ ret.locals.color = "blue"

\* C5: a call of Predictor.predict computes the descriptor once, before either
\* forward pass, and gives that descriptor to the valence model and then to
\* the arousal model.
C5_OneDescriptor ==
    /\ Len(trace) <= 3
    /\ \A k \in 1..Len(trace) : (trace[k].fn = "extract_features") <=> (k = 1)
    /\ Len(trace) >= 2 => trace[2].fn = "valence_model" /\ trace[2].x = trace[1].out
    /\ Len(trace) >= 3 => trace[3].fn = "arousal_model" /\ trace[3].x = trace[1].out
    /\ pc = "valence" => Len(trace) = 1
    /\ pc = "arousal" => Len(trace) = 2

C5_Witness ==
    /\ ret.op = "Predictor.predict"
    /\ Len(trace) = 3
    /\ trace[3].x = trace[1].out
    /\ ret.result[1].x = ret.result[2].x

\* C6: both models are in inference mode from construction on, no step changes
\* a model, and a later call of Predictor.predict on the audio file of the
\* first call returns the pair the first call returned.
C6_Deterministic ==
    /\ [](/\ ~valence_model.training
          /\ ~arousal_model.training
          /\ (ret.op = "Predictor.predict" /\ first_result.op = "Predictor.predict"
              /\ ret.audio_path = first_result.audio_path)
                => ret.result = first_result.result)
    /\ [][valence_model' = valence_model /\ arousal_model' = arousal_model]_vars

C6_Witness ==
    /\ ret.op = "Predictor.predict"
    /\ first_result.op = "Predictor.predict"
    /\ first_result.repeated
    /\ ret.audio_path = first_result.audio_path
    /\ ret.result = first_result.result

\* C7: an emotion of the catalog that is in no cluster is reported when the
\* program starts, so no request ever gets None from get_colormap.
C7_NeverLazyNone ==
    ~(ret.op = "get_colormap" /\ ret.locals.color = None)

\* C8: normalize_value is x |-> (x - 1) / 4 - 1, with 1 |-> -1 and 5 |-> 0,
\* increasing, and get_colormap looks up the emotion nearest to the pair it
\* gets by normalising valence and arousal each on its own.
C8_Normalize ==
    ret.op = "get_colormap" =>
        /\ 4 * (ret.locals.valence + 100) = ret.valence - 100
        /\ 4 * (ret.locals.arousal + 100) = ret.arousal - 100
        /\ ret.valence = 100 => ret.locals.valence = -100
        /\ ret.valence = 500 => ret.locals.valence = 0
        /\ ret.valence < ret.arousal => ret.locals.valence < ret.locals.arousal
        /\ \A j \in 1..Len(emotions) :
              sq_dist(ret.locals.valence, ret.locals.arousal,
                      index_of(ret.locals.emotion))
                  <= sq_dist(ret.locals.valence, ret.locals.arousal, j)

C8_Witness ==
    /\ ret.op = "get_colormap"
    /\ ret.valence = 100
    /\ ret.arousal = 500
    /\ ret.locals.valence = -100
    /\ ret.locals.arousal = 0

catalog_well_formed(n) ==
    /\ Len(emotions) = n
    /\ \A i, j \in 1..Len(emotions) : emotions[i].name = emotions[j].name => i = j
    /\ \A i \in 1..Len(emotions) :
          /\ DOMAIN emotions[i] = {"name", "valence", "arousal"}
          /\ emotions[i].valence \in Int
          /\ emotions[i].arousal \in Int

\* C9 as stated: the catalog has exactly 33 entries, no duplicate key, one
\* number per axis.
C9_Catalog33 == catalog_well_formed(33)

\* C9, amended: the catalog has exactly 34 entries, no duplicate key, one
\* number per axis, and no step of find_emotion, get_colormap or
\* Predictor.predict changes it.
C9_Catalog34 ==
    /\ [](catalog_well_formed(34))
    /\ [][emotions' = emotions]_vars

C9_Witness ==
    /\ ret.op = "get_colormap"
    /\ Len(emotions) = 34
    /\ emotions[34].name = "Pleased"

\* C10: the scorer gives one score per unit of the flattened vector, the
\* softmax weights of a sample are one per unit and sum to 1 over the units,
\* and each unit is scaled by its own weight.
C10_ScorePerUnit ==
    ret.op = "Attention.forward" =>
        \A r \in 1..Len(ret.x) :
            /\ Len(ret.locals.scores[r]) = ret.feature_dim
            /\ Len(ret.locals.alpha[r]) = ret.feature_dim
            /\ total([j \in 1..Len(ret.locals.alpha[r]) |-> ret.locals.alpha[r][j].num])
                  = ret.locals.alpha[r][1].den
            /\ \A j \in 1..ret.feature_dim :
                  ret.locals.attended_features[r][j].num
                      = ret.x[r][j] * ret.locals.alpha[r][j].num

\* What Attention.forward does instead: one score per sample, softmax over that
\* single score, so every weight is 1 and the output equals the input.
AttentionIsIdentity ==
    ret.op = "Attention.forward" =>
        \A r \in 1..Len(ret.x) :
            /\ Len(ret.locals.scores[r]) = 1
            /\ ret.locals.alpha[r] = <<[num |-> 1, den |-> 1]>>
            /\ \A j \in 1..ret.feature_dim :
                  ret.locals.attended_features[r][j] = [num |-> ret.x[r][j], den |-> 1]

====
